---- MODULE Spec2Model ----
(***************************************************************************)
(* Accumulator-style aggregations of python/ray/data/aggregate.py:         *)
(* AggregateFn and its subclasses Count, Sum, Min, Max, Mean, Std, AbsMax  *)
(* and Quantile, driven by an engine that seeds accumulators with init,    *)
(* folds blocks into them with accumulate_block, merges them with merge    *)
(* and reads the result with finalize.                                     *)
(*                                                                         *)
(* Numbers are exact rationals <<n, d>> (d > 0, lowest terms); +inf and    *)
(* -inf are <<1, 0>> and <<-1, 0>>.  Python's None is the empty tuple <<>> *)
(* and a present value x is <<x>>.  A block is the sequence of the values  *)
(* of the target column `on`, one per row.                                 *)
(***************************************************************************)
EXTENDS Integers, Sequences, FiniteSets, TLC

MaxAccs == 2
MaxBlockLen == 2
MaxRows == 3

Values == {-3, 1}
Ddofs == {0, 1, 2}
Qs == {<<1, 3>>, <<1, 2>>}

None == <<>>
Some(x) == <<x>>

Rows == {None} \cup {Some(x) : x \in Values}
Blocks == UNION {[1..n -> Rows] : n \in 0..MaxBlockLen}

----------------------------------------------------------------------------
(* Exact arithmetic *)

Abs(x) == IF x < 0 THEN -x ELSE x

RECURSIVE Gcd(_, _)
Gcd(a, b) == IF b = 0 THEN a ELSE Gcd(b, a % b)

Rat(n, d) ==
    LET g == Gcd(Abs(n), Abs(d))
        s == IF d < 0 THEN -1 ELSE 1
    IN  <<(s * n) \div g, (s * d) \div g>>

Whole(x) == <<x, 1>>
Inf == <<1, 0>>
NegInf == <<-1, 0>>

RAdd(a, b) == Rat(a[1] * b[2] + b[1] * a[2], a[2] * b[2])
RSub(a, b) == Rat(a[1] * b[2] - b[1] * a[2], a[2] * b[2])
RMul(a, b) == Rat(a[1] * b[1], a[2] * b[2])
RDiv(a, b) == Rat(a[1] * b[2], a[2] * b[1])
RLess(a, b) == a[1] * b[2] < b[1] * a[2]
RAbs(a) == <<Abs(a[1]), a[2]>>
Floor(a) == a[1] \div a[2]
Ceil(a) == -((-a[1]) \div a[2])

min(a1, a2) == IF RLess(a2, a1) THEN a2 ELSE a1
max(a1, a2) == IF RLess(a1, a2) THEN a2 ELSE a1

(* round(x, 5): nearest multiple of 10^-5, ties to the even one *)
round5(x) ==
    LET s == RMul(x, Whole(100000))
        f == Floor(s)
        r == RSub(s, Whole(f))
        up == \/ RLess(<<1, 2>>, r)
              \/ (r = <<1, 2>> /\ f % 2 = 1)
    IN  Rat(IF up THEN f + 1 ELSE f, 100000)

(* Outputs of finalize *)
Null == [tag |-> "null", val |-> <<>>]
Num(x) == [tag |-> "num", val |-> x]
Raise(e) == [tag |-> e, val |-> <<>>]
sqrt(x) ==
    IF x[1] < 0 THEN Raise("ValueError")
    ELSE IF x[1] = 0 THEN Num(Whole(0))
    ELSE [tag |-> "sqrt", val |-> x]

----------------------------------------------------------------------------
(* Block collaborator (ray.data.block.BlockAccessor) *)

RECURSIVE NonNull(_)
NonNull(block) ==
    IF block = <<>> THEN <<>>
    ELSE IF Head(block) = None THEN NonNull(Tail(block))
    ELSE <<Head(block)[1]>> \o NonNull(Tail(block))

HasNull(block) == \E i \in 1..Len(block) : block[i] = None

RECURSIVE SumSeq(_)
SumSeq(xs) == IF xs = <<>> THEN 0 ELSE Head(xs) + SumSeq(Tail(xs))

RECURSIVE MinSeq(_)
MinSeq(xs) ==
    IF Len(xs) = 1 THEN xs[1]
    ELSE LET m == MinSeq(Tail(xs)) IN IF m < Head(xs) THEN m ELSE Head(xs)

RECURSIVE MaxSeq(_)
MaxSeq(xs) ==
    IF Len(xs) = 1 THEN xs[1]
    ELSE LET m == MaxSeq(Tail(xs)) IN IF m > Head(xs) THEN m ELSE Head(xs)

num_rows(block) == Len(block)

block_count(block) == Len(NonNull(block))

block_sum(block, ignore_nulls) ==
    IF NonNull(block) = <<>> \/ (~ignore_nulls /\ HasNull(block)) THEN None
    ELSE Some(Whole(SumSeq(NonNull(block))))

block_min(block, ignore_nulls) ==
    IF NonNull(block) = <<>> \/ (~ignore_nulls /\ HasNull(block)) THEN None
    ELSE Some(Whole(MinSeq(NonNull(block))))

block_max(block, ignore_nulls) ==
    IF NonNull(block) = <<>> \/ (~ignore_nulls /\ HasNull(block)) THEN None
    ELSE Some(Whole(MaxSeq(NonNull(block))))

RECURSIVE SqDiffs(_, _)
SqDiffs(xs, mean) ==
    IF xs = <<>> THEN Whole(0)
    ELSE LET d == RSub(Whole(Head(xs)), mean)
         IN  RAdd(RMul(d, d), SqDiffs(Tail(xs), mean))

sum_of_squared_diffs_from_mean(block, ignore_nulls, mean) ==
    SqDiffs(NonNull(block), mean)

----------------------------------------------------------------------------
(* Null-handling wrapper layer (ray.data._internal.null_aggregate).  A     *)
(* wrapped accumulator is no-value (Empty, holding the base seed), the     *)
(* poison marker, or a value.  ref is the identity of the Python list that *)
(* holds a Quantile value (0: the state is not a list that is mutated).    *)

Free == [tag |-> "Free", v |-> <<>>, ref |-> 0]
Raw(v) == [tag |-> "Raw", v |-> v, ref |-> 0]
Empty(seed) == [tag |-> "Empty", v |-> seed, ref |-> 0]
Poisoned == [tag |-> "Poisoned", v |-> <<>>, ref |-> 0]
Value(v, ref) == [tag |-> "Value", v |-> v, ref |-> ref]

_null_wrap_init(seed) == Empty(seed)

(* a1, a2: wrapped accumulators; m: base merge of their values, as         *)
(* [v |-> merged state, obj |-> "a" | "b" | "new"], obj naming the object  *)
(* the base merge returns; new: the identity of a newly made list          *)
_null_wrap_merge(a1, a2, m, new) ==
    IF a1.tag = "Poisoned" \/ a2.tag = "Poisoned" THEN Poisoned
    ELSE IF a1.tag = "Empty" THEN a2
    ELSE IF a2.tag = "Empty" THEN a1
    ELSE Value(m.v, CASE m.obj = "a" -> a1.ref
                      [] m.obj = "b" -> a2.ref
                      [] OTHER -> new)

(* ret: the base vectorized result for the block, None or Some(state) *)
_null_wrap_accumulate_block_ret(ignore_nulls, ret, seed, new) ==
    IF ret # None THEN Value(ret[1], new)
    ELSE IF ignore_nulls THEN Empty(seed)
    ELSE Poisoned

(* r: the extracted column value; acc: base accumulate_row applied to the  *)
(* current state (the seed when no value has been seen)                    *)
_null_wrap_accumulate_row(ignore_nulls, a, r, acc) ==
    IF a.tag = "Poisoned" THEN a
    ELSE IF r = None THEN (IF ignore_nulls THEN a ELSE Poisoned)
    ELSE Value(acc, 0)

(* fin: base finalize applied to the unwrapped value *)
_null_wrap_finalize(a, fin) ==
    IF a.tag = "Value" THEN fin ELSE Null

----------------------------------------------------------------------------
(* AggregateFn.__init__ *)

NoAgg ==
    [status |-> "none", kind |-> "", ignore_nulls |-> TRUE, ddof |-> 1,
     q |-> <<1, 2>>, init |-> FALSE, merge |-> FALSE,
     accumulate_block |-> "unset", finalize |-> FALSE, name |-> ""]

(* AggregateFn_init that only rejects the call that supplies neither *)
AggregateFn_init_neither(kind, ignore_nulls, ddof, q, accumulate_row, accumulate_block, name) ==
    IF ~accumulate_row /\ ~accumulate_block
    THEN [NoAgg EXCEPT !.status = "ValueError"]
    ELSE [status |-> "ok", kind |-> kind, ignore_nulls |-> ignore_nulls,
          ddof |-> ddof, q |-> q, init |-> TRUE, merge |-> TRUE,
          accumulate_block |-> IF ~accumulate_block THEN "fold" ELSE "given",
          finalize |-> TRUE, name |-> name]

AggregateFn_init(kind, ignore_nulls, ddof, q, accumulate_row, accumulate_block, name) ==
    IF (~accumulate_row /\ ~accumulate_block) \/ (accumulate_row /\ accumulate_block)
    THEN [NoAgg EXCEPT !.status = "ValueError"]
    ELSE [status |-> "ok", kind |-> kind, ignore_nulls |-> ignore_nulls,
          ddof |-> ddof, q |-> q, init |-> TRUE, merge |-> TRUE,
          accumulate_block |-> IF ~accumulate_block THEN "fold" ELSE "given",
          finalize |-> TRUE, name |-> name]

WrappedKinds == {"Sum", "Min", "Max", "Mean", "Std", "AbsMax", "Quantile"}

_to_on_fn(r) == r

----------------------------------------------------------------------------
(* Base hooks of the concrete aggregations *)

Seed(kind) ==
    CASE kind = "Sum" -> Whole(0)
      [] kind = "Min" -> Inf
      [] kind = "Max" -> NegInf
      [] kind = "Mean" -> <<Whole(0), Whole(0)>>
      [] kind = "Std" -> <<Whole(0), Whole(0), Whole(0)>>
      [] kind = "AbsMax" -> Whole(0)
      [] kind = "Quantile" -> <<Some(0)>>
      [] OTHER -> Whole(0)

Count_accumulate_block(a, block) == RAdd(a, Whole(num_rows(block)))

(* Count merge that keeps the left operand only *)
Count_merge_left(a1, a2) == a1

Count_merge(a1, a2) == RAdd(a1, a2)

Sum_merge(a1, a2) == RAdd(a1, a2)

Mean_merge(a1, a2) == <<RAdd(a1[1], a2[1]), RAdd(a1[2], a2[2])>>

vectorized_mean(block, ignore_nulls) ==
    LET count == block_count(block)
        sum_ == block_sum(block, ignore_nulls)
    IN  IF count = 0 THEN None
        ELSE IF sum_ = None THEN None
        ELSE Some(<<sum_[1], Whole(count)>>)

Mean_finalize(a) ==
    IF a[2][1] = 0 THEN Raise("ZeroDivisionError") ELSE Num(RDiv(a[1], a[2]))

(* Std merge whose correction term uses delta instead of delta**2 *)
Std_merge_delta(a, b) ==
    LET M2_a == a[1]
        mean_a == a[2]
        count_a == a[3]
        M2_b == b[1]
        mean_b == b[2]
        count_b == b[3]
        delta == RSub(mean_b, mean_a)
        count == RAdd(count_a, count_b)
        mean == RDiv(RAdd(RMul(mean_a, count_a), RMul(mean_b, count_b)), count)
        M2 == RAdd(RAdd(M2_a, M2_b),
                   RDiv(RMul(RMul(delta, count_a), count_b), count))
    IN  <<M2, mean, count>>

Std_merge(a, b) ==
    LET M2_a == a[1]
        mean_a == a[2]
        count_a == a[3]
        M2_b == b[1]
        mean_b == b[2]
        count_b == b[3]
        delta == RSub(mean_b, mean_a)
        count == RAdd(count_a, count_b)
        mean == RDiv(RAdd(RMul(mean_a, count_a), RMul(mean_b, count_b)), count)
        M2 == RAdd(RAdd(M2_a, M2_b),
                   RDiv(RMul(RMul(RMul(delta, delta), count_a), count_b), count))
    IN  <<M2, mean, count>>

vectorized_std(block, ignore_nulls) ==
    LET count == block_count(block)
        sum_ == block_sum(block, ignore_nulls)
        mean == RDiv(sum_[1], Whole(count))
        M2 == sum_of_squared_diffs_from_mean(block, ignore_nulls, mean)
    IN  IF count = 0 THEN None
        ELSE IF sum_ = None THEN None
        ELSE Some(<<M2, mean, Whole(count)>>)

(* Std finalize that returns 0.0 only for count < 1 *)
Std_finalize_lt1(a, ddof) ==
    LET M2 == a[1]
        count == a[3]
    IN  IF RLess(count, Whole(1)) THEN Num(Whole(0))
        ELSE IF RSub(count, Whole(ddof))[1] = 0 THEN Raise("ZeroDivisionError")
        ELSE sqrt(RDiv(M2, RSub(count, Whole(ddof))))

Std_finalize(a, ddof) ==
    LET M2 == a[1]
        count == a[3]
    IN  IF RLess(count, Whole(2)) THEN Num(Whole(0))
        ELSE IF RSub(count, Whole(ddof))[1] = 0 THEN Raise("ZeroDivisionError")
        ELSE sqrt(RDiv(M2, RSub(count, Whole(ddof))))

AbsMax_accumulate_row(a, r) == max(a, RAbs(Whole(r)))

(* Quantile.merge: a, b are the operands' contents; aList, bList tell      *)
(* whether each is a list (else a scalar, held as None or Some(x)).        *)
Quantile_merge(aList, a, bList, b) ==
    IF aList /\ bList THEN [v |-> a \o b, obj |-> "a"]
    ELSE IF aList /\ ~bList
         THEN [v |-> IF b # None THEN Append(a, b) ELSE a, obj |-> "a"]
    ELSE IF bList /\ ~aList
         THEN [v |-> IF a # None THEN Append(b, a) ELSE b, obj |-> "b"]
    ELSE [v |-> (IF a # None THEN <<a>> ELSE <<>>)
                \o (IF b # None THEN <<b>> ELSE <<>>),
          obj |-> "new"]

block_row_ls(block) == Some([i \in 1..Len(block) |-> block[i]])

(* sorted(): ascending, stable; the values are not None *)
RECURSIVE Insert(_, _)
Insert(xs, x) ==
    IF xs = <<>> THEN <<x>>
    ELSE IF x < Head(xs) THEN <<x>> \o xs
    ELSE <<Head(xs)>> \o Insert(Tail(xs), x)

RECURSIVE sorted(_)
sorted(xs) ==
    IF xs = <<>> THEN <<>> ELSE Insert(sorted(Tail(xs)), Head(xs))

(* percentile that does not sort its input *)
percentile_unsorted(input_values, q) ==
    IF input_values = <<>> THEN Null
    ELSE IF Len(input_values) >= 2 /\ HasNull(input_values) THEN Raise("TypeError")
    ELSE IF input_values = <<None>> THEN Null
    ELSE LET vs == NonNull(input_values)
             k == RMul(Whole(Len(vs) - 1), q)
             f == Floor(k)
             c == Ceil(k)
             d0 == RMul(Whole(vs[f + 1]), RSub(Whole(c), k))
             d1 == RMul(Whole(vs[c + 1]), RSub(k, Whole(f)))
         IN  IF f = c THEN Num(Whole(vs[f + 1]))
             ELSE Num(round5(RAdd(d0, d1)))

(* Comparing None with anything raises TypeError, and sorting two or more  *)
(* items compares every one of them.                                      *)
percentile(input_values, q) ==
    IF input_values = <<>> THEN Null
    ELSE IF Len(input_values) >= 2 /\ HasNull(input_values) THEN Raise("TypeError")
    ELSE IF input_values = <<None>> THEN Null
    ELSE LET vs == sorted(NonNull(input_values))
             k == RMul(Whole(Len(vs) - 1), q)
             f == Floor(k)
             c == Ceil(k)
             d0 == RMul(Whole(vs[f + 1]), RSub(Whole(c), k))
             d1 == RMul(Whole(vs[c + 1]), RSub(k, Whole(f)))
         IN  IF f = c THEN Num(Whole(vs[f + 1]))
             ELSE Num(round5(RAdd(d0, d1)))

----------------------------------------------------------------------------
(* The four hooks an aggregation object exposes, by class *)

BaseMerge(kind, x, y) ==
    CASE kind = "Sum" -> [v |-> Sum_merge(x, y), obj |-> "new"]
      [] kind = "Min" -> [v |-> min(x, y), obj |-> "new"]
      [] kind = "Max" -> [v |-> max(x, y), obj |-> "new"]
      [] kind = "Mean" -> [v |-> Mean_merge(x, y), obj |-> "new"]
      [] kind = "Std" -> [v |-> Std_merge(x, y), obj |-> "new"]
      [] kind = "AbsMax" -> [v |-> max(x, y), obj |-> "new"]
      [] kind = "Quantile" -> Quantile_merge(TRUE, x, TRUE, y)

BaseBlock(g, block) ==
    CASE g.kind = "Sum" -> block_sum(block, g.ignore_nulls)
      [] g.kind = "Min" -> block_min(block, g.ignore_nulls)
      [] g.kind = "Max" -> block_max(block, g.ignore_nulls)
      [] g.kind = "Mean" -> vectorized_mean(block, g.ignore_nulls)
      [] g.kind = "Std" -> vectorized_std(block, g.ignore_nulls)
      [] g.kind = "Quantile" -> block_row_ls(block)

init(g) ==
    IF g.kind \in WrappedKinds THEN _null_wrap_init(Seed(g.kind))
    ELSE Raw(Whole(0))

merge(g, a1, a2, new) ==
    IF g.kind \in WrappedKinds
    THEN _null_wrap_merge(a1, a2, BaseMerge(g.kind, a1.v, a2.v), new)
    ELSE Raw(Count_merge(a1.v, a2.v))

accumulate_row(g, a, r) ==
    IF g.kind = "AbsMax"
    THEN _null_wrap_accumulate_row(g.ignore_nulls, a, _to_on_fn(r),
                                   AbsMax_accumulate_row(a.v, _to_on_fn(r)[1]))
    ELSE Raw(RAdd(a.v, Whole(1)))

RECURSIVE FoldRows(_, _, _)
FoldRows(g, a, block) ==
    IF block = <<>> THEN a
    ELSE FoldRows(g, accumulate_row(g, a, Head(block)), Tail(block))

_null_wrap_accumulate_block(g, a, block, new) ==
    merge(g, a,
          _null_wrap_accumulate_block_ret(g.ignore_nulls, BaseBlock(g, block),
                                          Seed(g.kind), new),
          new)

accumulate_block(g, a, block, new) ==
    IF g.accumulate_block = "fold" THEN FoldRows(g, a, block)
    ELSE IF g.kind \in WrappedKinds THEN _null_wrap_accumulate_block(g, a, block, new)
    ELSE Raw(Count_accumulate_block(a.v, block))

finalize(g, a) ==
    CASE g.kind = "Mean" -> _null_wrap_finalize(a, Mean_finalize(a.v))
      [] g.kind = "Std" -> _null_wrap_finalize(a, Std_finalize(a.v, g.ddof))
      [] g.kind = "Quantile" -> _null_wrap_finalize(a, percentile(a.v, g.q))
      [] g.kind \in {"Sum", "Min", "Max", "AbsMax"} -> _null_wrap_finalize(a, Num(a.v))
      [] OTHER -> Num(a.v)

----------------------------------------------------------------------------
(* State *)

VARIABLES
    agg,    \* the aggregation object of the query, once constructed
    accs,   \* the accumulators of one group that the engine holds, by slot
    hist,   \* per slot: the rows folded into the accumulator, and whether
            \* every accumulator it was derived from was used only once
    out,    \* the last finalize call: the slot read and the output
    call    \* the constructor call: which of accumulate_row and
            \* accumulate_block the caller supplied

vars == <<agg, accs, hist, out, call>>

Slots == 1..MaxAccs

NoHist == [vals |-> <<>>, nulls |-> 0, fresh |-> TRUE]

(* The history of an accumulator that is no longer followed: a Quantile    *)
(* accumulator that was already handed to a hook, or derived from one.     *)
Stale == [vals |-> <<>>, nulls |-> 0, fresh |-> FALSE]

Used(h) == IF agg.kind = "Quantile" THEN Stale ELSE h

Size(h) == Len(h.vals) + h.nulls

HistBlock(h) == [i \in 1..Size(h) |-> IF i <= Len(h.vals) THEN Some(h.vals[i]) ELSE None]

HistAdd(h, block) ==
    IF ~h.fresh THEN Stale
    ELSE [vals |-> sorted(h.vals \o NonNull(block)),
          nulls |-> h.nulls + (Len(block) - Len(NonNull(block))),
          fresh |-> TRUE]

HistUnion(h1, h2, distinct) ==
    IF ~h1.fresh \/ ~h2.fresh \/ (~distinct /\ agg.kind = "Quantile") THEN Stale
    ELSE [vals |-> sorted(h1.vals \o h2.vals),
          nulls |-> h1.nulls + h2.nulls,
          fresh |-> TRUE]

(* Histories after a hook that read slots `from` stored its result, with   *)
(* history h, in slot k                                                    *)
Track(k, h, from) ==
    [s \in Slots |->
        IF s = k THEN h
        ELSE IF accs'[s] = Free THEN NoHist
        ELSE IF s \in from \/ accs'[s] # accs[s] THEN Used(hist[s])
        ELSE hist[s]]

(* The identity of a list is the lowest slot that refers to it; a list    *)
(* made by the running hook is MaxAccs + 1 until it is stored.             *)
NewRef == IF agg.kind = "Quantile" THEN MaxAccs + 1 ELSE 0

Renumber(a) ==
    [s \in Slots |->
        IF a[s].ref = 0 THEN a[s]
        ELSE [a[s] EXCEPT !.ref =
                CHOOSE t \in Slots :
                    /\ a[t].ref = a[s].ref
                    /\ \A u \in 1..(t - 1) : a[u].ref # a[s].ref]]

(* Store result r in slot k and let go of the slots in `drop`; a list      *)
(* mutated in place is seen through every slot that refers to it.          *)
Store(k, r, drop) ==
    Renumber([s \in Slots |->
        IF s = k THEN r
        ELSE IF s \in drop THEN Free
        ELSE IF r.ref # 0 /\ accs[s].ref = r.ref THEN [accs[s] EXCEPT !.v = r.v]
        ELSE accs[s]])

(* The engine holds at most MaxRows rows in the accumulators of the group *)
RECURSIVE Held(_, _, _)
Held(a, h, n) ==
    IF n = 0 THEN 0
    ELSE Held(a, h, n - 1)
         + (IF agg.kind = "Quantile"
            THEN (IF a[n].tag = "Value" THEN Len(a[n].v) ELSE 0)
            ELSE Size(h[n]))

Init ==
    /\ agg = NoAgg
    /\ accs = [s \in Slots |-> Free]
    /\ hist = [s \in Slots |-> NoHist]
    /\ out = [slot |-> 0, val |-> Null]
    /\ call = [accumulate_row |-> FALSE, accumulate_block |-> FALSE]

New(kind, ignore_nulls, ddof, q, row, block, name) ==
    /\ agg.status = "none"
    /\ agg' = AggregateFn_init(kind, ignore_nulls, ddof, q, row, block, name)
    /\ call' = [accumulate_row |-> row, accumulate_block |-> block]
    /\ UNCHANGED <<accs, hist, out>>

NewAggregateFn ==
    \E row \in BOOLEAN, block \in BOOLEAN :
        New("AggregateFn", TRUE, 1, <<1, 2>>, row, block, "rows")

NewCount == New("Count", TRUE, 1, <<1, 2>>, FALSE, TRUE, "count()")

NewSum ==
    \E ignore_nulls \in BOOLEAN :
        New("Sum", ignore_nulls, 1, <<1, 2>>, FALSE, TRUE, "sum(on)")

NewMin ==
    \E ignore_nulls \in BOOLEAN :
        New("Min", ignore_nulls, 1, <<1, 2>>, FALSE, TRUE, "min(on)")

NewMax ==
    \E ignore_nulls \in BOOLEAN :
        New("Max", ignore_nulls, 1, <<1, 2>>, FALSE, TRUE, "max(on)")

NewMean ==
    \E ignore_nulls \in BOOLEAN :
        New("Mean", ignore_nulls, 1, <<1, 2>>, FALSE, TRUE, "mean(on)")

NewStd ==
    \E ignore_nulls \in BOOLEAN, ddof \in Ddofs :
        New("Std", ignore_nulls, ddof, <<1, 2>>, FALSE, TRUE, "std(on)")

NewAbsMax ==
    \E ignore_nulls \in BOOLEAN :
        New("AbsMax", ignore_nulls, 1, <<1, 2>>, TRUE, FALSE, "abs_max(on)")

NewQuantile ==
    \E ignore_nulls \in BOOLEAN, q \in Qs :
        New("Quantile", ignore_nulls, 1, q, FALSE, TRUE, "quantile(on)")

Running == agg.status = "ok" /\ out.slot = 0

CallInit(k) ==
    /\ Running
    /\ accs' = Renumber([accs EXCEPT ![k] = init(agg)])
    /\ hist' = [hist EXCEPT ![k] = NoHist]
    /\ UNCHANGED <<agg, out, call>>

CallAccumulateBlock(i, block, k, keep) ==
    /\ Running
    /\ accs[i].tag # "Free"
    /\ k = i \/ accs[k].tag = "Free"
    /\ accs' = Store(k, accumulate_block(agg, accs[i], block, NewRef),
                      IF keep THEN {} ELSE {i})
    /\ hist' = Track(k, HistAdd(hist[i], block), {i})
    /\ Held(accs', hist', MaxAccs) <= MaxRows
    /\ UNCHANGED <<agg, out, call>>

CallMerge(i, j, k, keep) ==
    /\ Running
    /\ accs[i].tag # "Free"
    /\ accs[j].tag # "Free"
    /\ k \in {i, j} \/ accs[k].tag = "Free"
    /\ accs' = Store(k, merge(agg, accs[i], accs[j], NewRef),
                      IF keep THEN {} ELSE {i, j})
    /\ hist' = Track(k, HistUnion(hist[i], hist[j], i # j), {i, j})
    /\ Held(accs', hist', MaxAccs) <= MaxRows
    /\ UNCHANGED <<agg, out, call>>

CallFinalize(i) ==
    /\ agg.status = "ok"
    /\ accs[i].tag # "Free"
    /\ out' = [slot |-> i, val |-> finalize(agg, accs[i])]
    /\ UNCHANGED <<agg, accs, hist, call>>

Accumulate ==
    \E i \in Slots, k \in Slots, block \in Blocks :
        \E keep \in (IF k = i THEN {TRUE} ELSE BOOLEAN) :
            CallAccumulateBlock(i, block, k, keep)
Merge ==
    \E i \in Slots, j \in Slots, k \in Slots :
        \E keep \in (IF {i, j} = {k} THEN {TRUE} ELSE BOOLEAN) :
            CallMerge(i, j, k, keep)
Seeding == \E k \in Slots : CallInit(k)
Finalizing == \E i \in Slots : CallFinalize(i)

Next ==
    \/ NewAggregateFn
    \/ NewCount
    \/ NewSum
    \/ NewMin
    \/ NewMax
    \/ NewMean
    \/ NewStd
    \/ NewAbsMax
    \/ NewQuantile
    \/ Seeding
    \/ Accumulate
    \/ Merge
    \/ Finalizing

Spec == Init /\ [][Next]_vars

----------------------------------------------------------------------------
(* Properties *)

Occupied(s) == accs[s].tag # "Free"
Followed(s) == Occupied(s) /\ hist[s].fresh
Output(s) == finalize(agg, accs[s])
Half == <<1, 2>>

(* The accumulator the group's rows give when they are accumulated as one  *)
(* block into a newly initialised accumulator                              *)
OneBlock(h) == accumulate_block(agg, init(agg), HistBlock(h), NewRef)

(* Reference aggregates of a non-empty sequence of values, by definition *)
Occurrences(xs, P(_)) == Cardinality({i \in 1..Len(xs) : P(xs[i])})

(* the r-th smallest item (r counted from 0) *)
OrderStat(xs, r) ==
    CHOOSE x \in {xs[i] : i \in 1..Len(xs)} :
        /\ Occurrences(xs, LAMBDA y : y < x) <= r
        /\ r < Occurrences(xs, LAMBDA y : y <= x)

RefQuantile(xs, q) ==
    LET k == RMul(Whole(Len(xs) - 1), q)
        lo == Floor(k)
        hi == Ceil(k)
    IN  IF k[2] = 1 THEN Whole(OrderStat(xs, k[1]))
        ELSE round5(RAdd(RMul(Whole(OrderStat(xs, lo)), RSub(Whole(hi), k)),
                         RMul(Whole(OrderStat(xs, hi)), RSub(k, Whole(lo)))))

RefMean(xs) == RDiv(Whole(SumSeq(xs)), Whole(Len(xs)))

RECURSIVE RefM2(_, _)
RefM2(xs, n) ==
    IF n = 0 THEN Whole(0)
    ELSE LET d == RSub(Whole(xs[n]), RefMean(xs))
         IN  RAdd(RefM2(xs, n - 1), RMul(d, d))

RefState(xs) == <<RefM2(xs, Len(xs)), RefMean(xs), Whole(Len(xs))>>

RefAggregate(kind, xs, q) ==
    CASE kind = "Sum" -> Whole(SumSeq(xs))
      [] kind = "Min" -> Whole(CHOOSE x \in {xs[i] : i \in 1..Len(xs)} :
                                \A i \in 1..Len(xs) : x <= xs[i])
      [] kind = "Max" -> Whole(CHOOSE x \in {xs[i] : i \in 1..Len(xs)} :
                                \A i \in 1..Len(xs) : x >= xs[i])
      [] kind = "Mean" -> RefMean(xs)
      [] kind = "AbsMax" -> Whole(CHOOSE x \in {Abs(xs[i]) : i \in 1..Len(xs)} :
                                   \A i \in 1..Len(xs) : x >= Abs(xs[i]))
      [] kind = "Quantile" -> RefQuantile(xs, q)

SameItems(xs, ys) ==
    \A x \in Rows : Occurrences(xs, LAMBDA y : y = x) = Occurrences(ys, LAMBDA y : y = x)

(* C1: for each of the eight aggregations, however the blocks of a group   *)
(* are fed to accumulate_block and in whatever order and tree shape the    *)
(* accumulators are merged, finalize gives the output of accumulating all  *)
(* the rows as a single block.                                             *)
C1Claim ==
    agg.status = "ok" /\ agg.kind # "AggregateFn" =>
        \A s \in Slots : Followed(s) => Output(s) = finalize(agg, OneBlock(hist[s]))

(* C2: with ignore_nulls=False, an accumulator into which a null value of  *)
(* the target column was folded, directly or through any merge, is         *)
(* poisoned and finalizes to null.                                         *)
C2Claim ==
    agg.status = "ok" /\ agg.kind \in WrappedKinds /\ ~agg.ignore_nulls =>
        \A s \in Slots :
            Followed(s) /\ hist[s].nulls > 0 =>
                accs[s].tag = "Poisoned" /\ Output(s) = Null

(* C3: with ignore_nulls=True, Sum, Min, Max, Mean, AbsMax and Quantile    *)
(* output the reference aggregate of the non-null values of the group, and *)
(* null when there are none.                                               *)
C3Claim ==
    /\ agg.status = "ok"
    /\ agg.kind \in {"Sum", "Min", "Max", "Mean", "AbsMax", "Quantile"}
    /\ agg.ignore_nulls
    => \A s \in Slots :
           Followed(s) =>
               Output(s) = IF hist[s].vals = <<>> THEN Null
                           ELSE Num(RefAggregate(agg.kind, hist[s].vals, agg.q))

(* C4: a Count accumulator equals the number of rows, null or not, of the  *)
(* blocks folded into it, and finalizes to that number (0 for no rows).    *)
C4Count ==
    agg.kind = "Count" =>
        \A s \in Slots :
            Occupied(s) =>
                /\ accs[s] = Raw(Whole(Size(hist[s])))
                /\ Output(s) = Num(Whole(Size(hist[s])))

C4Witness ==
    /\ agg.kind = "Count"
    /\ \E s \in Slots :
        /\ out.slot = s
        /\ Size(hist[s]) = 3
        /\ hist[s].nulls = 1
    /\ \E s \in Slots : Occupied(s) /\ Size(hist[s]) = 0

(* C5: construction raises when neither or both of accumulate_row and      *)
(* accumulate_block are supplied, and then no object with hooks exists;    *)
(* with exactly one supplied the object has an accumulate_block, which     *)
(* for a row-wise aggregation folds the rows of the block.                 *)
C5Construction ==
    agg.status # "none" =>
        /\ agg.status = "ValueError" <=> (call.accumulate_row <=> call.accumulate_block)
        /\ agg.status = "ValueError" =>
            /\ ~agg.init /\ ~agg.merge /\ ~agg.finalize
            /\ agg.accumulate_block = "unset"
            /\ \A s \in Slots : ~Occupied(s)
            /\ out.slot = 0
        /\ agg.status # "ValueError" =>
            /\ agg.status = "ok"
            /\ agg.init /\ agg.merge /\ agg.finalize
            /\ agg.accumulate_block = IF call.accumulate_block THEN "given" ELSE "fold"
            /\ agg.kind = "AggregateFn" =>
                \A s \in Slots : Occupied(s) => accs[s] = Raw(Whole(Size(hist[s])))

C5Witness ==
    agg.status = "ValueError" /\ call.accumulate_row /\ call.accumulate_block

(* C6: no hook changes an accumulator passed to it: after merge,           *)
(* accumulate_block or finalize every accumulator still held, other than   *)
(* the stored result, has the value it had, and finalize read twice on the *)
(* same accumulator gives the same output.                                 *)
Untouched(k) ==
    \A s \in Slots \ {k} : accs'[s] = Free \/ accs'[s].v = accs[s].v

C6Claim ==
    [][/\ \A i \in Slots, j \in Slots, k \in Slots, keep \in BOOLEAN :
            CallMerge(i, j, k, keep) => Untouched(k)
       /\ \A i \in Slots, k \in Slots, block \in Blocks, keep \in BOOLEAN :
            CallAccumulateBlock(i, block, k, keep) => Untouched(k)
       /\ \A i \in Slots :
            CallFinalize(i) =>
                /\ accs' = accs
                /\ out.slot = i => out'.val = out.val]_vars

(* C7: Std merge of the exact one-block states of two non-empty sub-groups *)
(* is the exact one-block state of their union (count, mean, sum of        *)
(* squared deviations about that mean), whichever operand comes first.     *)
C7StdMerge ==
    agg.kind = "Std" =>
        \A s \in Slots, t \in Slots :
            accs[s].tag = "Value" /\ accs[t].tag = "Value" =>
                /\ accs[s].v = RefState(hist[s].vals)
                /\ Std_merge(accs[s].v, accs[t].v) = RefState(hist[s].vals \o hist[t].vals)
                /\ Std_merge(accs[s].v, accs[t].v) = Std_merge(accs[t].v, accs[s].v)

C7Witness ==
    /\ agg.kind = "Std"
    /\ \E s \in Slots, t \in Slots :
        /\ accs[s].tag = "Value" /\ accs[t].tag = "Value"
        /\ Len(hist[s].vals) = 2 /\ Len(hist[t].vals) = 1
        /\ accs[s].v[1] # Whole(0)
        /\ accs[s].v[2] # accs[t].v[2]

(* C8: Quantile finalize on a list of n >= 1 non-null values gives the     *)
(* order statistic of rank k = (n-1)*q when k is an integer and otherwise  *)
(* the interpolation of the two neighbouring order statistics rounded to 5 *)
(* decimal digits; lists with the same items in another order give the     *)
(* same output.                                                            *)
C8Quantile ==
    /\ percentile(<<Some(1), Some(2), Some(3), Some(4)>>, Half) = Num(<<5, 2>>)
    /\ percentile(<<Some(5)>>, Half) = Num(Whole(5))
    /\ agg.kind = "Quantile" =>
        \A s \in Slots :
            accs[s].tag = "Value" /\ accs[s].v # <<>> /\ ~HasNull(accs[s].v) =>
                /\ Output(s) = Num(RefQuantile(NonNull(accs[s].v), agg.q))
                /\ \A t \in Slots :
                    accs[t].tag = "Value" /\ SameItems(accs[s].v, accs[t].v) =>
                        Output(t) = Output(s)

C8Witness ==
    /\ agg.kind = "Quantile"
    /\ agg.q = <<1, 3>>
    /\ \E s \in Slots :
        /\ out.slot = s
        /\ accs[s].v = <<Some(1), Some(-3)>>
        /\ out.val = Num(<<-166667, 100000>>)

C10Claim ==
    agg.kind = "Std" =>
        \A s \in Slots :
            accs[s].tag = "Value" /\ ~RLess(accs[s].v[3], Whole(2)) =>
                /\ RLess(Whole(agg.ddof), accs[s].v[3])
                /\ ~RLess(accs[s].v[1], Whole(0))
                /\ Output(s).tag \in {"num", "sqrt"}

====
